---- MODULE Spec2Model ----
(***************************************************************************)
(* Model of the autonomous task scheduler of backend/autonomous_agent.py   *)
(* (class AutonomousAgent): the task registry, the Ollama circuit breaker, *)
(* the action log, the main loop of start(), stop(), the decision          *)
(* sub-flow and reset_task_failures().                                     *)
(*                                                                         *)
(* Coroutines run on one cooperative event loop, so every action below is  *)
(* the code between two suspension points (await) of one coroutine.        *)
(*                                                                         *)
(* Time: the clock `now` counts periods of 300 s (the breaker cooldown).   *)
(* Waits shorter than one period (sleep(5), sleep(0.5), the 120 s task     *)
(* timeout, the 30 s / 5 s / 2 s waits of stop(), the 30 s decision        *)
(* interval) can expire anywhere inside a period, so their expiry is a     *)
(* nondeterministic choice of the model.                                   *)
(***************************************************************************)
EXTENDS Integers, Sequences, FiniteSets, TLC

\* ------------------------------------------------------------------ bounds
\* last clock value explored by Spec
MaxTime == 4
\* number of calls made on the control surface (start, stop, cancel of the
\* start() coroutine, reset_task_failures)
MaxCalls == 3
\* the same two bounds for SpecLong, which follows fewer calls for longer
MaxTimeLong == 6
MaxCallsLong == 2
\* number of start() coroutines that can be alive at once
MaxLoops == 2
\* number of calls followed by SpecDecide
MaxCallsDecide == 6
\* the bounds of SpecRegistry
MaxTimeRegistry == 3
MaxCallsRegistry == 3
\* SpecPerf
MaxTimePerf == 5
MaxCallsPerf == 2
\* SpecLive
MaxTimeLive == 8
MaxCallsLive == 1
\* SpecCadence
MaxTimeCadence == 4
MaxCallsCadence == 1

\* ------------------------------------------------------- program constants
\* task.failure_count >= 3 disables the task
MaxTaskFailures == 3
\* ollama_consecutive_failures >= 5 opens the breaker
BreakerThreshold == 5
\* breaker cooldown, 300 s = one clock period
BreakerCooldown == 1
\* asyncio.wait_for(task.execute_func(task), timeout=120)
TaskTimeout == 120
\* _optimize_task_interval: runs needed, the duration (s) below which a task
\* is fast, the least and the greatest interval (s)
MinRuns == 5
FastDuration == 5
MinInterval == 300
MaxInterval == 86400
\* the priorities of the goals created: 3 by _create_autonomous_goal, 8 by
\* the bot's goal command
AutonomousPriority == 3
UserPriority == 8

\* self.max_history (100 in the source) in the scheduler's specifications
MaxHistory == 1
\* SpecLog: the largest self.max_history, the number of entries recorded
MaxCapacity == 3
MaxRecords == 4
\* SpecGoals: self.max_goals (10 in the source), the number of goals created,
\* the last clock value
max_goals == 2
MaxCreated == 3
MaxTimeGoals == 3
\* the number of accepted actions that take a goal's progress from 0 to 100
ProgressSteps == 2
\* SpecTune: the successes and failures recorded for the task tuned
MaxSuccesses == 7
MaxFailures == 5

\* goal["progress"] = min(100, goal["progress"] + 10): ten accepted actions
\* complete a goal in the source, ProgressSteps of them here
ProgressFull == 100
ProgressStep == ProgressFull \div ProgressSteps

\* The registry: two of the tasks _register_default_tasks registers, in
\* registration (= iteration) order: 1 = extract_learnings, 2 = monitor_network.
Tasks == {1, 2}
NumTasks == Cardinality(Tasks)
\* the clock period in seconds
Period == 300
\* task.interval as registered: extract_learnings 600 s, monitor_network 300 s
interval(t) == IF t = 1 THEN 600 ELSE 300
\* time.time() when the agent is constructed: every task (last_run = 0) is due
Epoch == 2

Loops == 1..MaxLoops
DecIds == 1..MaxLoops

VARIABLES
    now,                          \* time.time()
    running,                      \* self.running
    shutdown_event,               \* self._shutdown_event.is_set()
    tasks,                        \* self.tasks: enabled, is_running, failure_count, last_run
    registered,                   \* the keys of self.tasks
    ollama_consecutive_failures,
    ollama_circuit_open,
    ollama_circuit_reset_time,
    action_history,               \* self.action_history: <<task name, status>>
    max_history,                  \* self.max_history
    last_decision,                \* self.last_decision
    decision_task,                \* self._decision_task: a DecIds slot, 0 = None or done()
    dec,                          \* the _make_autonomous_decision coroutines
    pc,                           \* position of each start() coroutine
    cur,                          \* its current_time (= task_start_time)
    ti,                           \* the task whose body it awaits
    it,                           \* its iterator over self.tasks.values()
    stopper,                      \* the stop() coroutine in progress
    aged,                         \* the timed waits that began before the last clock step
    tripped,                      \* history: failure_count reached 3 since the last reset
    last_start,                   \* history of SpecCadence: the time at which the last body
                                  \* of each task began, NoStart if none did
    task_performance,             \* self.task_performance: successes, failures, total, and
                                  \* avg_duration kept as the sum dsum = avg_duration * total
    task_interval,                \* task.interval, in seconds
    optimization_enabled,         \* self.optimization_enabled
    goals,                        \* self.goals: id, priority, progress (uid: the object)
    completed_goals,              \* self.completed_goals
    tracker,                      \* the _track_goals coroutine in progress
    calls,                        \* history: number of control-surface calls made
    pushed,                       \* history of SpecLog: the entries given to _record_action
    op                            \* history: what the last step did

vars == <<now, running, shutdown_event, tasks, registered, ollama_consecutive_failures,
          ollama_circuit_open, ollama_circuit_reset_time, action_history,
          last_decision, decision_task, dec, pc, cur, ti, it, stopper, aged, tripped,
          calls, op, max_history, pushed, goals, completed_goals, tracker,
          task_performance, task_interval, optimization_enabled, last_start>>

breakerVars == <<ollama_consecutive_failures, ollama_circuit_open, ollama_circuit_reset_time>>
decisionVars == <<last_decision, decision_task, dec>>
loopVars == <<pc, cur, ti>>
registryVars == <<registered, it>>
\* what no step of the scheduler writes
settingVars == <<max_history, pushed, task_interval, optimization_enabled>>
\* the goal tracker, written by create_goal, complete_goal and the body of the
\* track_goals task; SpecGoals follows it, the scheduler's specifications take
\* a body for its outcome only
goalVars == <<goals, completed_goals, tracker>>

\* ------------------------------------------------------------- history
NoOp == [kind |-> "none", loop |-> 0, task |-> 0, outcome |-> "none", start |-> 0,
         began |-> 0, gates |-> <<>>, logged |-> <<>>, bfails |-> 0, bopen |-> FALSE,
         wait |-> FALSE, forced |-> FALSE, evto |-> FALSE, exited |-> FALSE,
         launched |-> FALSE, raised |-> FALSE, backoff |-> FALSE,
         ok |-> FALSE, goal |-> <<>>, uid |-> 0, old |-> 0]

\* the iterator of a loop that is not inside "for task in self.tasks.values()":
\* size is len(self.tasks) when the iteration began, from the place where it
\* goes on, detached tells that the task object whose body is awaited is no
\* longer the one in the registry
ItIdle == [size |-> 0, from |-> 0, detached |-> FALSE]

\* no body of the task has begun yet
NoStart == 0 - 1

\* a task without an entry in self.task_performance
NoPerf == [successes |-> 0, failures |-> 0, total |-> 0, dsum |-> 0]

\* AutonomousTask defaults
NewTask == [enabled |-> TRUE, is_running |-> FALSE, failure_count |-> 0, last_run |-> 0]


\* -------------------------------------------------------- pure helpers
Min(a, b) == IF a <= b THEN a ELSE b

Max(a, b) == IF a >= b THEN a ELSE b

\* _record_action: append, then keep the last max_history entries
\* variant: the trim keeps the oldest entries
_record_action_keeps_oldest(h, a) ==
    LET h2 == Append(h, a) IN
    IF Len(h2) > max_history
    THEN SubSeq(h2, 1, max_history)
    ELSE h2

_record_action(h, a) ==
    LET h2 == Append(h, a) IN
    IF Len(h2) > max_history
    THEN SubSeq(h2, Len(h2) - max_history + 1, Len(h2))
    ELSE h2

\* _check_circuit_breaker on a breaker record [fails, open, reset]
_check_circuit_breaker(b) ==
    IF b.fails >= BreakerThreshold
    THEN [b EXCEPT !.open = TRUE, !.reset = now + BreakerCooldown]
    ELSE b

Breaker == [fails |-> ollama_consecutive_failures,
            open  |-> ollama_circuit_open,
            reset |-> ollama_circuit_reset_time]

\* the scheduler's gate on a due task (start(), "Check circuit breaker for
\* Ollama"): with the breaker open, close it when time.time() is past the
\* reset time, otherwise skip the run
\* variant: the breaker closes at the deadline already
GateCloses_at_deadline(b) == b.open /\ now >= b.reset

GateCloses(b) == b.open /\ now > b.reset

\* variant: at the deadline the gate neither closes the breaker nor skips
GateSkips_before_deadline(b) == b.open /\ now < b.reset

GateSkips(b) == b.open /\ ~(now > b.reset)

\* "Check if it's time to run this task"
IsDue(t, ct, task) == (ct - task.last_run) * Period >= task_interval[t]

\* "Disable task if too many consecutive failures"
TooManyFailures(task) == task.failure_count >= MaxTaskFailures

\* The task scan of one tick, from task i on, up to the next suspension
\* point: the first task whose body is awaited (run # 0) or the end of the
\* for loop (run = 0).  ct is the tick's current_time.
RECURSIVE Scan(_, _, _, _, _)
Scan(ts, b, i, ct, gates) ==
    IF i > NumTasks
    THEN [tasks |-> ts, b |-> b, run |-> 0, gates |-> gates]
    ELSE
    LET task == ts[i] IN
    IF i \notin registered THEN Scan(ts, b, i + 1, ct, gates)
    ELSE IF ~task.enabled THEN Scan(ts, b, i + 1, ct, gates)
    ELSE IF task.is_running THEN Scan(ts, b, i + 1, ct, gates)
    ELSE IF TooManyFailures(task)
    THEN Scan([ts EXCEPT ![i].enabled = FALSE, ![i].last_run = ct], b, i + 1, ct, gates)
    ELSE IF IsDue(i, ct, task)
    THEN
        LET g == [task |-> i, start |-> ct, at |-> now, open |-> b.open,
                  deadline |-> b.reset, closed |-> GateCloses(b)] IN
        IF GateSkips(b)
        THEN \* is_running set and cleared, last_run stamped, continue (finally repeats it)
             Scan([ts EXCEPT ![i].is_running = FALSE, ![i].last_run = ct],
                  b, i + 1, ct, Append(gates, g))
        ELSE [tasks |-> [ts EXCEPT ![i].is_running = TRUE],
              b     |-> IF GateCloses(b) THEN [b EXCEPT !.open = FALSE, !.fails = 0] ELSE b,
              run   |-> i,
              gates |-> Append(gates, g)]
    ELSE Scan(ts, b, i + 1, ct, gates)

\* what follows the await of a task body, by outcome: the rest of the try,
\* the except clauses and the finally.  start is the run's task_start_time.
Outcomes == {"success", "timeout", "dep_error", "other_error", "cancelled"}

CountsForTask(o) == o \in {"timeout", "dep_error", "other_error"}

\* timeouts always count against the breaker; other exceptions only when
\* their text contains "ollama" or "connection"
\* variant: every failure of a body counts against the breaker
CountsForBreaker_every_failure(o) == o \in {"timeout", "dep_error", "other_error"}

CountsForBreaker(o) == o \in {"timeout", "dep_error"}

LogStatus(o) == IF o = "success" THEN "success"
                ELSE IF o = "timeout" THEN "timeout" ELSE "failed"

\* variant: the bookkeeping sits in an except clause, which a cancellation skips
TaskAfter_no_finally(task, o, start) ==
    IF o = "cancelled" THEN task
    ELSE [task EXCEPT !.failure_count = IF o = "success" THEN 0 ELSE @ + 1,
                      !.last_run = start,
                      !.is_running = FALSE]

TaskAfter(task, o, start) ==
    [task EXCEPT !.failure_count = IF o = "success" THEN 0
                                   ELSE IF CountsForTask(o) THEN @ + 1 ELSE @,
                 !.last_run = start,
                 !.is_running = FALSE]

\* variant: a success leaves the breaker's counter alone
BreakerAfter_no_reset(b, o) ==
    IF CountsForBreaker(o) THEN _check_circuit_breaker([b EXCEPT !.fails = @ + 1])
    ELSE b

BreakerAfter(b, o) ==
    IF o = "success" THEN [b EXCEPT !.fails = 0]
    ELSE IF CountsForBreaker(o) THEN _check_circuit_breaker([b EXCEPT !.fails = @ + 1])
    ELSE b

\* variant: the timeout falls through to the generic handler as well
Logged_twice(t, o) ==
    IF o = "cancelled" THEN <<>>
    ELSE IF o = "timeout" THEN << <<t, "timeout">>, <<t, "failed">> >>
    ELSE << <<t, LogStatus(o)>> >>

\* the entries the run writes to the action log
Logged(t, o) == IF o = "cancelled" THEN <<>> ELSE << <<t, LogStatus(o)>> >>

RECURSIVE RecordAll(_, _)
RecordAll(h, entries) ==
    IF entries = <<>> THEN h
    ELSE RecordAll(_record_action(h, Head(entries)), Tail(entries))

HistoryAfter(h, t, o) == RecordAll(h, Logged(t, o))

\* self._update_task_performance(task_id, success, duration) on the record
\* of one task; the rolling average is kept as the sum of the durations
_update_task_performance(perf, success, duration) ==
    [successes |-> perf.successes + (IF success THEN 1 ELSE 0),
     failures  |-> perf.failures + (IF success THEN 0 ELSE 1),
     total     |-> perf.total + 1,
     dsum      |-> perf.dsum + duration]

\* the duration the scheduler reports for the run that step o ended at time
\* t: 120 for a timeout, time.time() - task_start_time otherwise
Duration(o, t) == IF o.outcome = "timeout" THEN TaskTimeout ELSE (t - o.start) * Period

\* the performance records after step o made at time t: the scheduler
\* updates the record of the task whose run ended in it, and no other
PerformanceAfter(tp, o, t) ==
    IF o.kind = "end"
    THEN [tp EXCEPT ![o.task] =
             _update_task_performance(@, o.outcome = "success", Duration(o, t))]
    ELSE tp


\* ------------------------------------------------------------ initial state
\* AutonomousAgent.__init__ and the AutonomousTask defaults, without
\* max_history and what the self-tuning reads
InitScheduler ==
    /\ now = Epoch
    /\ running = FALSE
    /\ shutdown_event = FALSE
    /\ tasks = [t \in Tasks |-> NewTask]
    /\ registered = Tasks
    /\ ollama_consecutive_failures = 0
    /\ ollama_circuit_open = FALSE
    /\ ollama_circuit_reset_time = 0
    /\ action_history = <<>>
    /\ pushed = <<>>
    /\ goals = <<>>
    /\ completed_goals = <<>>
    /\ tracker = [pc |-> "idle", uid |-> 0]
    /\ last_decision = 0
    /\ decision_task = 0
    /\ dec = [d \in DecIds |-> [st |-> "free", cancel |-> FALSE]]
    /\ pc = [l \in Loops |-> "idle"]
    /\ cur = [l \in Loops |-> 0]
    /\ ti = [l \in Loops |-> 0]
    /\ it = [l \in Loops |-> ItIdle]
    /\ stopper = [pc |-> "idle", wait |-> FALSE, forced |-> FALSE, d |-> 0,
                  early |-> {}, exited |-> FALSE, done |-> FALSE]
    /\ aged = {}
    /\ tripped = [t \in Tasks |-> FALSE]
    /\ last_start = [t \in Tasks |-> NoStart]
    /\ calls = 0
    /\ op = NoOp

\* no run recorded, the intervals of _register_default_tasks, self-tuning on
InitPerformance ==
    /\ task_performance = [t \in Tasks |-> NoPerf]
    /\ task_interval = [t \in Tasks |-> interval(t)]
    /\ optimization_enabled = TRUE

Init ==
    /\ InitScheduler
    /\ max_history = MaxHistory
    /\ InitPerformance

\* ------------------------------------------------------ event-loop order
\* self._decision_lock.locked(): held from the acquisition to the end of
\* the model call
DecisionLocked == \E d \in DecIds : dec[d].st = "calling"

\* Steps already on the event loop's ready queue: the first step of a
\* created decision task, the delivery of a cancellation, a lock waiter woken
\* by a release, a coroutine woken by the end of the task it awaited.  The
\* event loop runs them before it serves timers and I/O.
ReadyWork ==
    \/ \E d \in DecIds :
          /\ dec[d].st # "free"
          /\ \/ dec[d].cancel
             \/ dec[d].st = "pending"
             \/ dec[d].st = "waitlock" /\ ~DecisionLocked
    \/ \E l \in Loops : pc[l] = "decide_resume"
    \/ stopper.pc \in {"after_decision", "event_seen"}

AnyRunning(ts) == \E t \in registered : ts[t].is_running

\* history: failure_count reached the limit
Trip(ts) == [t \in Tasks |-> tripped[t] \/ ts[t].failure_count >= MaxTaskFailures]

\* --------------------------------------------------- the decision launch
\* asyncio.create_task(self._make_autonomous_decision()); last_decision = current_time
Launch(l, ct, o) ==
    \E d \in DecIds :
        /\ dec[d].st = "free"
        /\ \A e \in DecIds : e < d => dec[e].st # "free"
        /\ dec' = [dec EXCEPT ![d] = [st |-> "pending", cancel |-> FALSE]]
        /\ decision_task' = d
        /\ last_decision' = ct
        /\ pc' = [pc EXCEPT ![l] = "sleep"]
        /\ ti' = [ti EXCEPT ![l] = 0]
        /\ cur' = [cur EXCEPT ![l] = 0]
        /\ op' = [o EXCEPT !.launched = TRUE]

\* current_time - self.last_decision >= self.decision_interval (30 s, less
\* than a clock period)
DueChoices(ct) ==
    IF ct - last_decision >= 1 THEN {TRUE}
    ELSE IF ct - last_decision = 0 THEN {TRUE, FALSE}
    ELSE {FALSE}

\* "Make autonomous decision about what to do next", then sleep(5)
DecisionCheck(l, ct, o) ==
    \E due \in DueChoices(ct) :
        IF ~due
        THEN /\ pc' = [pc EXCEPT ![l] = "sleep"]
             /\ ti' = [ti EXCEPT ![l] = 0]
             /\ cur' = [cur EXCEPT ![l] = 0]
             /\ UNCHANGED decisionVars
             /\ op' = o
        ELSE IF DecisionLocked
        THEN /\ last_decision' = ct
             /\ pc' = [pc EXCEPT ![l] = "sleep"]
             /\ ti' = [ti EXCEPT ![l] = 0]
             /\ cur' = [cur EXCEPT ![l] = 0]
             /\ UNCHANGED <<decision_task, dec>>
             /\ op' = o
        ELSE IF decision_task # 0
        THEN \* cancel the previous decision task and await it
             /\ dec' = [dec EXCEPT ![decision_task].cancel = TRUE]
             /\ pc' = [pc EXCEPT ![l] = "decide_wait"]
             /\ ti' = [ti EXCEPT ![l] = decision_task]
             /\ cur' = [cur EXCEPT ![l] = ct]
             /\ UNCHANGED <<last_decision, decision_task>>
             /\ op' = o
        ELSE Launch(l, ct, o)

\* The main loop from the scan of task `from` on, to its next await.
Continue(l, ct, ts, b, hist, from, o) ==
    LET s == Scan(ts, b, from, ct, <<>>) IN
    /\ tasks' = s.tasks
    /\ ollama_consecutive_failures' = s.b.fails
    /\ ollama_circuit_open' = s.b.open
    /\ ollama_circuit_reset_time' = s.b.reset
    /\ action_history' = hist
    /\ tripped' = Trip(ts)
    /\ UNCHANGED registered
    /\ IF s.run # 0
       THEN /\ pc' = [pc EXCEPT ![l] = "body"]
            /\ ti' = [ti EXCEPT ![l] = s.run]
            /\ cur' = [cur EXCEPT ![l] = ct]
            /\ it' = [it EXCEPT ![l] = [size |-> IF pc[l] = "body" THEN it[l].size
                                                  ELSE Cardinality(registered),
                                        from |-> s.run + 1,
                                        detached |-> FALSE]]
            /\ UNCHANGED decisionVars
            /\ op' = [o EXCEPT !.began = s.run, !.gates = s.gates]
       ELSE /\ it' = [it EXCEPT ![l] = ItIdle]
            /\ DecisionCheck(l, ct, [o EXCEPT !.gates = s.gates])

FreeLoop(l) == pc[l] \in {"idle", "exited", "cancelled"}

\* the loop is in asyncio.sleep(5) at the end of a tick, or in the
\* asyncio.sleep(10) that follows an exception caught at tick level
Asleep(l) == pc[l] \in {"sleep", "backoff"}

\* the next step of "for task in self.tasks.values()" raises RuntimeError
\* (dictionary changed size during iteration)
IterationFails(l) == Cardinality(registered) # it[l].size

\* variant: the exception of a tick is not caught and ends start()
TickError_uncaught(l, ts, b, hist, o) ==
    /\ tasks' = ts
    /\ ollama_consecutive_failures' = b.fails
    /\ ollama_circuit_open' = b.open
    /\ ollama_circuit_reset_time' = b.reset
    /\ action_history' = hist
    /\ tripped' = Trip(ts)
    /\ pc' = [pc EXCEPT ![l] = "cancelled"]
    /\ ti' = [ti EXCEPT ![l] = 0]
    /\ cur' = [cur EXCEPT ![l] = 0]
    /\ it' = [it EXCEPT ![l] = ItIdle]
    /\ op' = [o EXCEPT !.raised = TRUE]
    /\ UNCHANGED <<registered, decisionVars>>

\* "except Exception" of the tick: the rest of the tick (the other tasks,
\* the decision) is dropped, then asyncio.sleep(10)
TickError(l, ts, b, hist, o) ==
    /\ tasks' = ts
    /\ ollama_consecutive_failures' = b.fails
    /\ ollama_circuit_open' = b.open
    /\ ollama_circuit_reset_time' = b.reset
    /\ action_history' = hist
    /\ tripped' = Trip(ts)
    /\ pc' = [pc EXCEPT ![l] = "backoff"]
    /\ ti' = [ti EXCEPT ![l] = 0]
    /\ cur' = [cur EXCEPT ![l] = 0]
    /\ it' = [it EXCEPT ![l] = ItIdle]
    /\ op' = [o EXCEPT !.raised = TRUE]
    /\ UNCHANGED <<registered, decisionVars>>

\* ------------------------------------------------------------------ start()
\* variant: start() without the test of the running flag
AlreadyRunning_unchecked == FALSE

\* "if self.running", under the start lock
AlreadyRunning == running

\* "while self.running"
WhileRunning == running

\* the loop no longer sleeps: stop() stops counting on its wake-up
Woken(l) == [stopper EXCEPT !.early = @ \ {l}]

StartCall ==
    IF AlreadyRunning
    THEN \* "Autonomous agent already running"
         /\ op' = [NoOp EXCEPT !.kind = "start_noop"]
         /\ UNCHANGED <<registryVars, now, running, shutdown_event, tasks, breakerVars, action_history,
                        decisionVars, loopVars, stopper, tripped>>
    ELSE \E l \in Loops :
         /\ FreeLoop(l)
         /\ \A k \in Loops : k < l => ~FreeLoop(k)
         /\ running' = TRUE
         /\ shutdown_event' = FALSE
         /\ Continue(l, now, tasks, Breaker, action_history, 1,
                     [NoOp EXCEPT !.kind = "start", !.loop = l])
         /\ stopper' = [stopper EXCEPT !.done = FALSE]
         /\ UNCHANGED now

\* the loop wakes from sleep(5) or sleep(10): "while self.running" and the
\* next tick, or the exit with self._shutdown_event.set()
Wake(l) ==
    /\ Asleep(l)
    /\ ~ReadyWork
    \* a sleep(5) begun during stop()'s 5 s wait for the event outlasts that wait
    /\ stopper.pc = "wait_event" => (l \in stopper.early \/ pc[l] = "backoff")
    /\ IF WhileRunning
       THEN /\ Continue(l, now, tasks, Breaker, action_history, 1,
                        [NoOp EXCEPT !.kind = "tick", !.loop = l,
                                     !.backoff = pc[l] = "backoff"])
            /\ stopper' = Woken(l)
            /\ UNCHANGED <<now, running, shutdown_event>>
       ELSE /\ shutdown_event' = TRUE
            /\ pc' = [pc EXCEPT ![l] = "exited"]
            /\ stopper' = IF stopper.pc = "idle" THEN stopper
                          ELSE [Woken(l) EXCEPT
                                   !.exited = TRUE,
                                   !.pc = IF @ = "wait_event" THEN "event_seen" ELSE @]
            /\ op' = [NoOp EXCEPT !.kind = "exit", !.loop = l]
            /\ UNCHANGED <<registryVars, now, running, tasks, breakerVars, action_history,
                           decisionVars, cur, ti, tripped>>

\* the awaited task body ends: returns, hits the 120 s timeout or raises
EndBody(l, o) ==
    /\ pc[l] = "body"
    /\ o \in Outcomes \ {"cancelled"}
    /\ ~ReadyWork
    /\ LET t == ti[l]
           \* the bookkeeping is done on the task object the loop holds
           ts == IF it[l].detached THEN tasks
                 ELSE [tasks EXCEPT ![t] = TaskAfter(tasks[t], o, cur[l])]
           b == BreakerAfter(Breaker, o)
           hist == HistoryAfter(action_history, t, o)
           done == [NoOp EXCEPT !.kind = "end", !.loop = l, !.task = t, !.outcome = o,
                                !.start = cur[l], !.logged = Logged(t, o),
                                !.bfails = IF o = "success" THEN ollama_consecutive_failures
                                           ELSE 0,
                                !.bopen = o = "success" /\ ollama_circuit_open]
       IN IF IterationFails(l)
          THEN TickError(l, ts, b, hist, done)
          ELSE Continue(l, cur[l], ts, b, hist, it[l].from, done)
    /\ UNCHANGED <<now, running, shutdown_event, stopper>>

\* the start() coroutine is cancelled at its await (CancelledError is not an
\* Exception: only the finally of a running task body is executed)
Cancel(l) ==
    /\ pc[l] \in {"body", "sleep", "backoff", "decide_wait", "decide_resume"}
    /\ pc' = [pc EXCEPT ![l] = "cancelled"]
    /\ cur' = [cur EXCEPT ![l] = 0]
    /\ ti' = [ti EXCEPT ![l] = 0]
    /\ IF pc[l] = "body"
       THEN /\ tasks' = IF it[l].detached THEN tasks
                        ELSE [tasks EXCEPT ![ti[l]] = TaskAfter(tasks[ti[l]], "cancelled", cur[l])]
            /\ op' = [NoOp EXCEPT !.kind = "end", !.loop = l, !.task = ti[l],
                                  !.outcome = "cancelled", !.start = cur[l]]
       ELSE /\ UNCHANGED tasks
            /\ op' = [NoOp EXCEPT !.kind = "cancel", !.loop = l]
    /\ stopper' = Woken(l)
    /\ it' = [it EXCEPT ![l] = ItIdle]
    /\ UNCHANGED <<registered, now, running, shutdown_event, breakerVars, action_history,
                   decisionVars, tripped>>


\* ------------------------------------------------------------------- stop()
StopIdle == [pc |-> "idle", wait |-> FALSE, forced |-> FALSE, d |-> 0, early |-> {},
             exited |-> FALSE, done |-> FALSE]

\* history: the last call was a stop(wait_for_tasks=True) and it has returned
StopDone == [StopIdle EXCEPT !.done = TRUE]

\* history, for op: how this stop() returns
StopReturn(forced, evto) ==
    [NoOp EXCEPT !.kind = "stop_return", !.wait = TRUE, !.forced = forced, !.evto = evto,
                 !.exited = stopper.exited]

\* variant: stop() returns without waiting for the shutdown event
StopToEvent_no_wait(forced) ==
    /\ stopper' = StopDone
    /\ op' = StopReturn(forced, FALSE)

\* "Wait for main loop to exit": wait_for(self._shutdown_event.wait(), 5.0)
StopToEvent(forced) ==
    IF shutdown_event
    THEN /\ stopper' = StopDone
         /\ op' = StopReturn(forced, FALSE)
    ELSE \* the loops asleep by now wake up before the 5 s are over
         /\ stopper' = [stopper EXCEPT !.pc = "wait_event", !.wait = TRUE, !.forced = forced,
                                       !.done = FALSE,
                                       !.early = {l \in Loops : pc[l] = "sleep"}]
         /\ op' = [NoOp EXCEPT !.kind = "stop"]

\* stop() after the decision task is dealt with: the first test of
\* "while any(t.is_running ...)", or the return when wait_for_tasks is false
StopAfterDecision(w) ==
    IF w
    THEN IF AnyRunning(tasks)
         THEN /\ stopper' = [stopper EXCEPT !.pc = "wait_tasks", !.wait = TRUE,
                                            !.done = FALSE]
              /\ op' = [NoOp EXCEPT !.kind = "stop"]
         ELSE StopToEvent(FALSE)
    ELSE /\ stopper' = StopIdle
         /\ op' = [NoOp EXCEPT !.kind = "stop_return"]

\* "if not self.running"
NotRunning == ~running

StopCall(w) ==
    IF NotRunning
    THEN \* "Autonomous agent is not running"
         /\ op' = [NoOp EXCEPT !.kind = "stop_noop", !.wait = w]
         /\ UNCHANGED <<registryVars, now, running, shutdown_event, tasks, breakerVars, action_history,
                        decisionVars, loopVars, stopper, tripped>>
    ELSE /\ stopper.pc = "idle"
         /\ running' = FALSE
         /\ IF decision_task # 0
            THEN \* self._decision_task.cancel(), then wait for it
                 /\ dec' = [dec EXCEPT ![decision_task].cancel = TRUE]
                 /\ stopper' = [pc |-> "wait_decision", wait |-> w, forced |-> FALSE,
                                d |-> decision_task, early |-> {}, exited |-> FALSE,
                                done |-> FALSE]
                 /\ op' = [NoOp EXCEPT !.kind = "stop"]
            ELSE /\ StopAfterDecision(w)
                 /\ UNCHANGED dec
         /\ UNCHANGED <<registryVars, now, shutdown_event, tasks, breakerVars, action_history,
                        last_decision, decision_task, loopVars, tripped>>

\* stop() resumes after the cancelled decision task has ended
StopResume ==
    /\ stopper.pc = "after_decision"
    /\ StopAfterDecision(stopper.wait)
    /\ UNCHANGED <<registryVars, now, running, shutdown_event, tasks, breakerVars, action_history,
                   decisionVars, loopVars, tripped>>

\* a poll of the wait loop finds no task running
StopTasksDone ==
    /\ stopper.pc = "wait_tasks"
    /\ ~ReadyWork
    /\ ~AnyRunning(tasks)
    /\ StopToEvent(FALSE)
    /\ UNCHANGED <<registryVars, now, running, shutdown_event, tasks, breakerVars, action_history,
                   decisionVars, loopVars, tripped>>

\* a poll finds a task running after the timeout: "Shutdown timeout -
\* forcing stop", every is_running flag is cleared
StopForce ==
    /\ stopper.pc = "wait_tasks"
    /\ ~ReadyWork
    /\ AnyRunning(tasks)
    /\ tasks' = [t \in Tasks |-> IF t \in registered
                                  THEN [tasks[t] EXCEPT !.is_running = FALSE] ELSE tasks[t]]
    /\ StopToEvent(TRUE)
    /\ UNCHANGED <<registryVars, now, running, shutdown_event, breakerVars, action_history,
                   decisionVars, loopVars, tripped>>

\* the loop's exit has set the shutdown event and woken stop(): it returns
StopEventSet ==
    /\ stopper.pc = "event_seen"
    /\ stopper' = StopDone
    /\ op' = StopReturn(stopper.forced, FALSE)
    /\ UNCHANGED <<registryVars, now, running, shutdown_event, tasks, breakerVars, action_history,
                   decisionVars, loopVars, tripped>>

\* the 5 s wait times out: "Main loop did not exit cleanly", stop() returns
StopEventTimeout ==
    /\ stopper.pc = "wait_event"
    /\ ~ReadyWork
    /\ \A l \in stopper.early : pc[l] # "sleep"
    /\ stopper' = StopDone
    /\ op' = StopReturn(stopper.forced, TRUE)
    /\ UNCHANGED <<registryVars, now, running, shutdown_event, tasks, breakerVars, action_history,
                   decisionVars, loopVars, tripped>>

\* ------------------------------------------------ register_task, remove_task
\* self.tasks[task.task_id] = task, with a new AutonomousTask.  An id that
\* is registered keeps its place in the dictionary; a new id goes to its end,
\* and ids are registered in increasing order here, so that the
\* dictionary's order stays the order of the ids.  A loop suspended in the
\* for loop meets the ids added at the end after those it has not yet seen.
RegisterTask(t) ==
    /\ t \in Tasks
    /\ t \in registered \/ \A u \in registered : u < t
    /\ registered' = registered \cup {t}
    /\ tasks' = [tasks EXCEPT ![t] = NewTask]
    /\ it' = [l \in Loops |->
                IF pc[l] = "body"
                THEN [it[l] EXCEPT !.detached = @ \/ ti[l] = t,
                                   !.from = IF t \notin registered /\ t < @ THEN t ELSE @]
                ELSE it[l]]
    /\ tripped' = [tripped EXCEPT ![t] = FALSE]
    /\ op' = [NoOp EXCEPT !.kind = "register", !.task = t]
    /\ UNCHANGED <<now, running, shutdown_event, breakerVars, action_history,
                   decisionVars, loopVars, stopper>>

\* del self.tasks[task_id] if the id is registered
RemoveTask(t) ==
    /\ t \in Tasks
    /\ IF t \in registered
       THEN /\ registered' = registered \ {t}
            /\ tasks' = [tasks EXCEPT ![t] = NewTask]
            /\ it' = [l \in Loops |->
                        IF pc[l] = "body"
                        THEN [it[l] EXCEPT !.detached = @ \/ ti[l] = t]
                        ELSE it[l]]
            /\ tripped' = [tripped EXCEPT ![t] = FALSE]
       ELSE UNCHANGED <<registered, tasks, it, tripped>>
    /\ op' = [NoOp EXCEPT !.kind = "remove", !.task = t]
    /\ UNCHANGED <<now, running, shutdown_event, breakerVars, action_history,
                   decisionVars, loopVars, stopper>>

\* ------------------------------------------------------ reset_task_failures
\* tid = 0 stands for task_id = None (all tasks)
\* variant: the reset does not look at is_running
ResetOne_unguarded(task) == [task EXCEPT !.failure_count = 0, !.enabled = TRUE]

ResetOne(task) ==
    IF task.is_running THEN task
    ELSE [task EXCEPT !.failure_count = 0, !.enabled = TRUE]

ResetTaskFailures(tid) ==
    /\ tid \in Tasks \cup {0}
    /\ tasks' = [t \in Tasks |-> IF t \in registered /\ (tid = 0 \/ tid = t)
                                  THEN ResetOne(tasks[t]) ELSE tasks[t]]
    /\ tripped' = [t \in Tasks |->
                     IF t \in registered /\ (tid = 0 \/ tid = t) /\ ~tasks[t].is_running
                     THEN FALSE ELSE tripped[t]]
    /\ op' = [NoOp EXCEPT !.kind = "reset", !.task = tid]
    /\ UNCHANGED <<registryVars, now, running, shutdown_event, breakerVars, action_history,
                   decisionVars, loopVars, stopper>>

\* ------------------------------------------------- _make_autonomous_decision
\* the end of a decision task: done() becomes true, its awaiters wake up
DecEnds(d) ==
    /\ decision_task' = IF decision_task = d THEN 0 ELSE decision_task
    /\ pc' = [l \in Loops |-> IF pc[l] = "decide_wait" /\ ti[l] = d
                              THEN "decide_resume" ELSE pc[l]]
    /\ stopper' = IF stopper.pc = "wait_decision" /\ stopper.d = d
                  THEN [stopper EXCEPT !.pc = "after_decision"] ELSE stopper

\* variant: the decision does not look at the breaker
DecEnter_ignores_breaker(d) ==
    IF \A t \in registered : ~tasks[t].enabled
    THEN /\ dec' = [dec EXCEPT ![d] = [st |-> "free", cancel |-> FALSE]]
         /\ DecEnds(d)
    ELSE /\ dec' = [dec EXCEPT ![d].st = "calling"]
         /\ UNCHANGED <<decision_task, pc, stopper>>

\* inside the lock, up to the model call: "Skip if no active tasks", "Skip
\* if circuit breaker is open"
DecEnter(d) ==
    IF (\A t \in registered : ~tasks[t].enabled) \/ ollama_circuit_open
    THEN /\ dec' = [dec EXCEPT ![d] = [st |-> "free", cancel |-> FALSE]]
         /\ DecEnds(d)
    ELSE /\ dec' = [dec EXCEPT ![d].st = "calling"]
         /\ UNCHANGED <<decision_task, pc, stopper>>

\* first step of the coroutine: async with self._decision_lock
\* variant: the coroutine enters without taking the lock
DecStart_no_lock(d) ==
    /\ dec[d].st = "pending"
    /\ ~dec[d].cancel
    /\ DecEnter(d)
    /\ op' = [NoOp EXCEPT !.kind = "decision"]
    /\ UNCHANGED <<registryVars, now, running, shutdown_event, tasks, breakerVars, action_history,
                   last_decision, cur, ti, tripped>>

DecStart(d) ==
    /\ dec[d].st = "pending"
    /\ ~dec[d].cancel
    /\ IF DecisionLocked
       THEN /\ dec' = [dec EXCEPT ![d].st = "waitlock"]
            /\ UNCHANGED <<decision_task, pc, stopper>>
       ELSE DecEnter(d)
    /\ op' = [NoOp EXCEPT !.kind = "decision"]
    /\ UNCHANGED <<registryVars, now, running, shutdown_event, tasks, breakerVars, action_history,
                   last_decision, cur, ti, tripped>>

\* a waiter gets the released lock
DecAcquire(d) ==
    /\ dec[d].st = "waitlock"
    /\ ~dec[d].cancel
    /\ ~DecisionLocked
    /\ DecEnter(d)
    /\ op' = [NoOp EXCEPT !.kind = "decision"]
    /\ UNCHANGED <<registryVars, now, running, shutdown_event, tasks, breakerVars, action_history,
                   last_decision, cur, ti, tripped>>

\* the model call ends: a concrete decision is logged, "nothing" or an
\* error (timeout included) is not
DecResults == {"decided", "nothing", "error"}

\* variant: an error of the model call is not caught in the sub-flow and
\* brings the agent down
DecFinish_error_escapes(d, r) ==
    /\ dec[d].st = "calling"
    /\ ~dec[d].cancel
    /\ ~ReadyWork
    /\ r \in DecResults
    /\ action_history' = IF r = "decided"
                         THEN _record_action(action_history, <<0, "decided">>)
                         ELSE action_history
    /\ dec' = [dec EXCEPT ![d] = [st |-> "free", cancel |-> FALSE]]
    /\ DecEnds(d)
    /\ running' = IF r = "error" THEN FALSE ELSE running
    /\ op' = [NoOp EXCEPT !.kind = "decision", !.outcome = r]
    /\ UNCHANGED <<registryVars, now, shutdown_event, tasks, breakerVars,
                   last_decision, cur, ti, tripped>>

DecFinish(d, r) ==
    /\ dec[d].st = "calling"
    /\ ~dec[d].cancel
    /\ ~ReadyWork
    /\ r \in DecResults
    /\ action_history' = IF r = "decided"
                         THEN _record_action(action_history, <<0, "decided">>)
                         ELSE action_history
    /\ dec' = [dec EXCEPT ![d] = [st |-> "free", cancel |-> FALSE]]
    /\ DecEnds(d)
    /\ op' = [NoOp EXCEPT !.kind = "decision", !.outcome = r]
    /\ UNCHANGED <<registryVars, now, running, shutdown_event, tasks, breakerVars,
                   last_decision, cur, ti, tripped>>

\* the cancellation reaches the decision task: it ends, the lock is released
DecCancelled(d) ==
    /\ dec[d].st # "free"
    /\ dec[d].cancel
    /\ dec' = [dec EXCEPT ![d] = [st |-> "free", cancel |-> FALSE]]
    /\ DecEnds(d)
    /\ op' = [NoOp EXCEPT !.kind = "decision", !.outcome = "cancelled"]
    /\ UNCHANGED <<registryVars, now, running, shutdown_event, tasks, breakerVars, action_history,
                   last_decision, cur, ti, tripped>>

\* the loop resumes after "await self._decision_task" and creates the new
\* decision task
DecideResume(l) ==
    /\ pc[l] = "decide_resume"
    /\ Launch(l, cur[l], [NoOp EXCEPT !.kind = "resume", !.loop = l])
    /\ UNCHANGED <<registryVars, now, running, shutdown_event, tasks, breakerVars, action_history,
                   stopper, tripped>>

\* ---------------------------------------------------------------- the clock
\* The timed waits in progress: a loop in a task body (120 s) or asleep
\* (5 s), stop() polling the tasks (30 s) or waiting for the event (5 s), a
\* decision in its model call (30 s).  A loop is named by its index, stop()
\* by 0, a decision by its slot after the loops.
StopId == 0
DecId(d) == MaxLoops + d
NoOne == 0 - 1

Waiters ==
    {l \in Loops : pc[l] = "body" \/ Asleep(l)}
    \cup (IF stopper.pc \in {"wait_tasks", "wait_event"} THEN {StopId} ELSE {})
    \cup {DecId(d) : d \in {e \in DecIds : dec[e].st = "calling"}}

\* One clock period passes.  Every wait is shorter than a period, so none
\* of them sees two clock steps.
AdvanceClock ==
    /\ ~ReadyWork
    /\ aged = {}
    /\ now' = now + 1
    /\ aged' = Waiters
    /\ op' = NoOp
    /\ UNCHANGED <<registryVars, running, shutdown_event, tasks, breakerVars, action_history,
                   decisionVars, loopVars, stopper, tripped, calls, settingVars, goalVars,
                   task_performance, last_start>>

\* a call made by the environment on the control surface, at most n of
\* them; e is the waiter the call ends, if any
Call(A, n, e) ==
    /\ calls < n /\ calls' = calls + 1 /\ A /\ aged' = aged \ {e}
    /\ UNCHANGED <<settingVars, goalVars, task_performance, last_start>>

\* a step of the event loop, made by waiter e.  No step of the scheduler
\* reads self.task_performance (_optimize_task_interval has no caller), so
\* the records are followed in SpecPerf only, by StepPerf.
Step(A, e) ==
    /\ A
    /\ aged' = aged \ {e}
    /\ UNCHANGED <<calls, settingVars, goalVars, task_performance, last_start>>

Next ==
    \/ Call(StartCall, MaxCalls, NoOne)
    \/ \E w \in BOOLEAN : Call(StopCall(w), MaxCalls, NoOne)
    \/ \E l \in Loops : Call(Cancel(l), MaxCalls, l)
    \/ \E tid \in Tasks \cup {0} : Call(ResetTaskFailures(tid), MaxCalls, NoOne)
    \/ \E l \in Loops : Step(Wake(l), l)
    \/ \E l \in Loops, o \in Outcomes : Step(EndBody(l, o), l)
    \/ Step(StopResume, StopId)
    \/ Step(StopTasksDone, StopId)
    \/ Step(StopForce, StopId)
    \/ Step(StopEventSet, StopId)
    \/ Step(StopEventTimeout, StopId)
    \/ \E d \in DecIds : Step(DecStart(d), NoOne)
    \/ \E d \in DecIds, r \in DecResults : Step(DecFinish(d, r), DecId(d))
    \/ \E d \in DecIds : Step(DecCancelled(d), DecId(d))
    \/ \E l \in Loops : Step(DecideResume(l), NoOne)
    \/ now < MaxTime /\ AdvanceClock

\* The whole scheduler under at most MaxCalls calls, up to time MaxTime.
Spec == Init /\ [][Next]_vars

NextLong ==
    \/ Call(StartCall, MaxCallsLong, NoOne)
    \/ \E w \in BOOLEAN : Call(StopCall(w), MaxCallsLong, NoOne)
    \/ \E l \in Loops : Call(Cancel(l), MaxCallsLong, l)
    \/ \E tid \in Tasks \cup {0} : Call(ResetTaskFailures(tid), MaxCallsLong, NoOne)
    \/ \E l \in Loops : Step(Wake(l), l)
    \/ \E l \in Loops, o \in Outcomes : Step(EndBody(l, o), l)
    \/ Step(StopResume, StopId)
    \/ Step(StopTasksDone, StopId)
    \/ Step(StopForce, StopId)
    \/ Step(StopEventSet, StopId)
    \/ Step(StopEventTimeout, StopId)
    \/ \E d \in DecIds : Step(DecStart(d), NoOne)
    \/ \E d \in DecIds, r \in DecResults : Step(DecFinish(d, r), DecId(d))
    \/ \E d \in DecIds : Step(DecCancelled(d), DecId(d))
    \/ now < MaxTimeLong /\ AdvanceClock

\* The scheduler under at most MaxCallsLong calls, up to time MaxTimeLong:
\* long enough for the breaker to open and close again.
SpecLong == Init /\ [][NextLong]_vars

NextLive ==
    \/ Call(StartCall, MaxCallsLive, NoOne)
    \/ \E l \in Loops : Step(Wake(l), l)
    \/ \E l \in Loops, o \in Outcomes : Step(EndBody(l, o), l)
    \/ \E d \in DecIds : Step(DecStart(d), NoOne)
    \/ \E d \in DecIds, r \in DecResults : Step(DecFinish(d, r), DecId(d))
    \/ now < MaxTimeLive /\ AdvanceClock

\* what the event loop and the timeouts guarantee: time passes, a sleep
\* ends, an awaited body ends (asyncio.wait_for, 120 s), a decision task
\* created is run and its model call ends (asyncio.wait_for, 30 s)
FairLive ==
    /\ WF_vars(now < MaxTimeLive /\ AdvanceClock)
    /\ \A l \in Loops : WF_vars(Step(Wake(l), l))
    /\ \A l \in Loops : WF_vars(\E o \in Outcomes : Step(EndBody(l, o), l))
    /\ \A d \in DecIds : WF_vars(Step(DecStart(d), NoOne))
    /\ \A d \in DecIds : WF_vars(\E r \in DecResults : Step(DecFinish(d, r), DecId(d)))

\* One start() coroutine that is never stopped, up to time MaxTimeLive, with
\* a loop that keeps ticking.
SpecLive == Init /\ [][NextLive]_vars /\ FairLive

\* the times of the last starts after step o made at time t
StartsAfter(ls, o, t) == IF o.began # 0 THEN [ls EXCEPT ![o.began] = t] ELSE ls

\* a call and a step of the event loop with the starts of the bodies noted
CallCadence(A, n, e) ==
    /\ calls < n /\ calls' = calls + 1 /\ A /\ aged' = aged \ {e}
    /\ last_start' = StartsAfter(last_start, op', now)
    /\ UNCHANGED <<settingVars, goalVars, task_performance>>

StepCadence(A, e) ==
    /\ A
    /\ aged' = aged \ {e}
    /\ last_start' = StartsAfter(last_start, op', now)
    /\ UNCHANGED <<calls, settingVars, goalVars, task_performance>>

NextCadence ==
    \/ CallCadence(StartCall, MaxCallsCadence, NoOne)
    \/ \E l \in Loops : StepCadence(Wake(l), l)
    \/ \E l \in Loops, o \in Outcomes : StepCadence(EndBody(l, o), l)
    \/ \E d \in DecIds : StepCadence(DecStart(d), NoOne)
    \/ \E d \in DecIds, r \in DecResults : StepCadence(DecFinish(d, r), DecId(d))
    \/ now < MaxTimeCadence /\ AdvanceClock

\* One start() coroutine up to time MaxTimeCadence, with the time at which
\* each body begins noted.
SpecCadence == Init /\ [][NextCadence]_vars

\* a step of the event loop with the performance records followed
StepPerf(A, e) ==
    /\ A
    /\ aged' = aged \ {e}
    /\ task_performance' = PerformanceAfter(task_performance, op', now)
    /\ UNCHANGED <<calls, settingVars, goalVars, last_start>>

\* the outcomes of a body that SpecPerf draws from: the return and the 120 s
\* timeout, which counts against the task and against the breaker
PerfOutcomes == {"success", "timeout"}

NextPerf ==
    \/ Call(StartCall, MaxCallsPerf, NoOne)
    \/ \E tid \in Tasks \cup {0} : Call(ResetTaskFailures(tid), MaxCallsPerf, NoOne)
    \/ \E l \in Loops : StepPerf(Wake(l), l)
    \/ \E l \in Loops, o \in PerfOutcomes : StepPerf(EndBody(l, o), l)
    \/ \E d \in DecIds : StepPerf(DecStart(d), NoOne)
    \/ \E d \in DecIds, r \in DecResults : StepPerf(DecFinish(d, r), DecId(d))
    \/ now < MaxTimePerf /\ AdvanceClock

\* One start() and calls of reset_task_failures, at most MaxCallsPerf calls
\* in all, up to time MaxTimePerf, with self.task_performance followed.
SpecPerf == Init /\ [][NextPerf]_vars

NextDecide ==
    \/ Call(StartCall, MaxCallsDecide, NoOne)
    \/ Call(StopCall(FALSE), MaxCallsDecide, NoOne)
    \/ \E l \in Loops : Call(Cancel(l), MaxCallsDecide, l)
    \/ \E l \in Loops : Step(Wake(l), l)
    \/ \E l \in Loops, o \in Outcomes : Step(EndBody(l, o), l)
    \/ Step(StopResume, StopId)
    \/ \E d \in DecIds : Step(DecStart(d), NoOne)
    \/ \E d \in DecIds : Step(DecAcquire(d), NoOne)
    \/ \E d \in DecIds, r \in DecResults : Step(DecFinish(d, r), DecId(d))
    \/ \E d \in DecIds : Step(DecCancelled(d), DecId(d))
    \/ \E l \in Loops : Step(DecideResume(l), NoOne)

NextRegistry ==
    \/ Call(StartCall, MaxCallsRegistry, NoOne)
    \/ \E t \in Tasks : Call(RegisterTask(t), MaxCallsRegistry, NoOne)
    \/ \E t \in Tasks : Call(RemoveTask(t), MaxCallsRegistry, NoOne)
    \/ \E l \in Loops : Step(Wake(l), l)
    \/ \E l \in Loops, o \in Outcomes : Step(EndBody(l, o), l)
    \/ \E d \in DecIds : Step(DecStart(d), NoOne)
    \/ \E d \in DecIds, r \in DecResults : Step(DecFinish(d, r), DecId(d))
    \/ now < MaxTimeRegistry /\ AdvanceClock

\* One start() and calls of register_task and remove_task, at most
\* MaxCallsRegistry calls in all, up to time MaxTimeRegistry.
SpecRegistry == Init /\ [][NextRegistry]_vars

\* The launches of the decision sub-flow under at most MaxCallsDecide calls
\* of start(), stop(wait_for_tasks=False) and cancellations, all within one
\* clock period.
SpecDecide == Init /\ [][NextDecide]_vars

\* ---------------------------------------------------------- the action log
\* the scheduler's state apart from the action log
notLogVars == <<now, running, shutdown_event, tasks, registryVars, breakerVars,
                decisionVars, loopVars, stopper, aged, tripped, calls,
                task_performance, task_interval, optimization_enabled, last_start>>

LogEntries == {<<1, "success">>, <<2, "timeout">>, <<0, "decided">>}

\* a new agent whose max_history is one of 1..MaxCapacity
InitLog ==
    /\ InitScheduler
    /\ max_history \in 1..MaxCapacity
    /\ InitPerformance

\* self._record_action(a)
RecordAction(a) ==
    /\ Len(pushed) < MaxRecords
    /\ action_history' = _record_action(action_history, a)
    /\ pushed' = Append(pushed, a)
    /\ op' = [NoOp EXCEPT !.kind = "record"]
    /\ UNCHANGED <<notLogVars, max_history, goalVars>>

NextLog == \E a \in LogEntries : RecordAction(a)

\* MaxRecords calls of _record_action on an agent of any capacity up to
\* MaxCapacity.
SpecLog == InitLog /\ [][NextLog]_vars

\* ------------------------------------------------------------ self-tuning
\* what the tuner does not touch
notTuneVars == <<now, running, shutdown_event, tasks, registryVars, breakerVars,
                 action_history, decisionVars, loopVars, stopper, aged, tripped, calls,
                 max_history, pushed, goalVars, task_performance, optimization_enabled,
                 last_start>>

\* variant: the shorter interval is not held at 300 s
_optimize_task_interval_no_floor(enabled, perf, old) ==
    IF ~enabled THEN old
    ELSE IF perf.total = 0 THEN old
    ELSE IF perf.total < MinRuns THEN old
    ELSE IF perf.successes * 10 >= 7 * perf.total
    THEN IF perf.dsum < FastDuration * perf.total
         THEN (old * 8) \div 10
         ELSE old
    ELSE IF perf.successes * 2 < perf.total
    THEN Min(MaxInterval, (old * 15) \div 10)
    ELSE old

\* _optimize_task_interval: the task's new interval.  success_rate is
\* successes / total and avg_duration is dsum / total; interval * 0.8 and
\* interval * 1.5 are exact on the multiples of 10 s the model tunes.
_optimize_task_interval(enabled, perf, old) ==
    IF ~enabled THEN old
    ELSE IF perf.total = 0 THEN old
    ELSE IF perf.total < MinRuns THEN old
    ELSE IF perf.successes * 10 >= 7 * perf.total
    THEN IF perf.dsum < FastDuration * perf.total
         THEN Max(MinInterval, (old * 8) \div 10)
         ELSE old
    ELSE IF perf.successes * 2 < perf.total
    THEN Min(MaxInterval, (old * 15) \div 10)
    ELSE old

\* a call of _optimize_task_interval(t)
OptimizeTaskInterval(t) ==
    /\ t \in registered
    /\ task_interval[t] % 10 = 0
    /\ task_interval' = [task_interval EXCEPT ![t] =
                            _optimize_task_interval(optimization_enabled, task_performance[t], @)]
    /\ op' = [NoOp EXCEPT !.kind = "optimize", !.task = t, !.old = task_interval[t]]
    /\ UNCHANGED notTuneVars

\* the intervals and the average durations (s) the tuner is tried on
Intervals == {60, 300, 370, 600, 57600, 60000}
AvgDurations == {2, 5, 120}

\* an agent whose first task has s successes and f failures recorded with
\* average duration d, and interval v; self-tuning on or off
InitTune ==
    /\ InitScheduler
    /\ max_history = MaxHistory
    /\ optimization_enabled \in BOOLEAN
    /\ \E s \in 0..MaxSuccesses, f \in 0..MaxFailures, d \in AvgDurations, v \in Intervals :
          /\ task_performance =
                [t \in Tasks |-> IF t = 1
                                 THEN IF s + f = 0 THEN NoPerf
                                      ELSE [successes |-> s, failures |-> f, total |-> s + f,
                                            dsum |-> d * (s + f)]
                                 ELSE NoPerf]
          /\ task_interval = [t \in Tasks |-> IF t = 1 THEN v ELSE interval(t)]

NextTune == \E t \in Tasks : OptimizeTaskInterval(t)

\* The tuner applied to a task of any record of up to MaxSuccesses successes
\* and MaxFailures failures.
SpecTune == InitTune /\ [][NextTune]_vars

\* --------------------------------------------------------- the goal tracker
\* the state of the scheduler, which the goal tracker does not touch
notGoalVars == <<running, shutdown_event, tasks, registryVars, breakerVars, action_history,
                 decisionVars, loopVars, stopper, aged, tripped, calls, settingVars,
                 task_performance, last_start>>

\* the goal objects there are
AllGoals == {goals[i] : i \in DOMAIN goals} \cup {completed_goals[i] : i \in DOMAIN completed_goals}

\* f"goal_{int(time.time())}_{len(self.goals)}"
GoalId(gs) == <<now, Len(gs)>>

\* variant: the test lets one goal more in
CapReached_above_only(gs) == Len(gs) > max_goals

\* len(self.goals) >= self.max_goals
CapReached(gs) == Len(gs) >= max_goals

\* create_goal: the lists and the value returned (<<>> for None)
create_goal(gs, p) ==
    IF CapReached(gs) THEN [goals |-> gs, id |-> <<>>]
    ELSE [goals |-> Append(gs, [id |-> GoalId(gs), priority |-> p, progress |-> 0,
                                status |-> "active",
                                uid |-> Cardinality(AllGoals) + 1]),
          id |-> GoalId(gs)]

\* the first goal of the list with this id, 0 if there is none
FirstWithId(gs, id) ==
    IF \E i \in DOMAIN gs : gs[i].id = id
    THEN CHOOSE i \in DOMAIN gs : gs[i].id = id /\ \A j \in 1..(i - 1) : gs[j].id # id
    ELSE 0

RemoveAt(gs, i) == [j \in 1..(Len(gs) - 1) |-> IF j < i THEN gs[j] ELSE gs[j + 1]]

\* complete_goal: the lists and the value returned
complete_goal(gs, cg, id) ==
    LET i == FirstWithId(gs, id) IN
    IF i = 0 THEN [goals |-> gs, completed |-> cg, ok |-> FALSE]
    ELSE [goals |-> RemoveAt(gs, i),
          completed |-> Append(cg, [gs[i] EXCEPT !.status = "completed"]),
          ok |-> TRUE]

\* max(active_goals, key=lambda g: g["priority"]): the first of the goals
\* of highest priority
PickGoal(gs) ==
    LET active == {i \in DOMAIN gs : gs[i].status = "active"} IN
    IF active = {} THEN 0
    ELSE CHOOSE i \in active :
            /\ \A j \in active : gs[j].priority <= gs[i].priority
            /\ \A j \in active : j < i => gs[j].priority < gs[i].priority

\* goal["progress"] = min(100, goal["progress"] + 10) on the object uid,
\* in whichever list it is
Progress(gs, u) ==
    [i \in DOMAIN gs |->
        IF gs[i].uid = u
        THEN [gs[i] EXCEPT !.progress = IF @ + ProgressStep > ProgressFull THEN ProgressFull
                                        ELSE @ + ProgressStep]
        ELSE gs[i]]

\* a call of create_goal
CreateGoal(p) ==
    /\ Cardinality(AllGoals) < MaxCreated
    /\ LET r == create_goal(goals, p) IN
       /\ goals' = r.goals
       /\ op' = [NoOp EXCEPT !.kind = "create_goal", !.ok = r.id # <<>>, !.goal = r.id]
    /\ UNCHANGED <<notGoalVars, now, completed_goals, tracker>>

\* a call of complete_goal with the id of a goal created before
CompleteGoal(id) ==
    /\ id \in {g.id : g \in AllGoals}
    /\ LET r == complete_goal(goals, completed_goals, id) IN
       /\ goals' = r.goals
       /\ completed_goals' = r.completed
       /\ op' = [NoOp EXCEPT !.kind = "complete_goal", !.ok = r.ok, !.goal = id]
    /\ UNCHANGED <<notGoalVars, now, tracker>>

\* _track_goals up to its await: with no goal it returns or asks the model
\* for one (random.random() < 0.3), otherwise it picks a goal and asks the
\* model for an action
TrackBegin ==
    /\ tracker.pc = "idle"
    /\ IF goals = <<>>
       THEN \E ask \in BOOLEAN :
               tracker' = IF ask THEN [pc |-> "goal_call", uid |-> 0] ELSE tracker
       ELSE tracker' = IF PickGoal(goals) = 0 THEN tracker
                       ELSE [pc |-> "action_call", uid |-> goals[PickGoal(goals)].uid]
    /\ op' = [NoOp EXCEPT !.kind = "track_begin"]
    /\ UNCHANGED <<notGoalVars, now, goals, completed_goals>>

ModelAnswers == {"accepted", "none", "error"}

\* _create_autonomous_goal after its model call
TrackGoalAnswer(a) ==
    /\ tracker.pc = "goal_call"
    /\ a \in ModelAnswers
    /\ Cardinality(AllGoals) < MaxCreated
    /\ LET r == IF a = "accepted" THEN create_goal(goals, AutonomousPriority)
                ELSE [goals |-> goals, id |-> <<>>] IN
       /\ goals' = r.goals
       /\ op' = [NoOp EXCEPT !.kind = "track_goal", !.ok = r.id # <<>>, !.goal = r.id]
    /\ tracker' = [pc |-> "idle", uid |-> 0]
    /\ UNCHANGED <<notGoalVars, now, completed_goals>>

\* _track_goals after its model call: an accepted action adds to the
\* progress of the goal picked, and at 100 the goal is completed by its id
TrackActionAnswer(a) ==
    /\ tracker.pc = "action_call"
    /\ a \in ModelAnswers
    /\ IF a = "accepted"
       THEN LET gs == Progress(goals, tracker.uid)
                cg == Progress(completed_goals, tracker.uid)
                g == CHOOSE x \in {gs[i] : i \in DOMAIN gs} \cup {cg[i] : i \in DOMAIN cg} :
                         x.uid = tracker.uid
                r == IF g.progress >= ProgressFull THEN complete_goal(gs, cg, g.id)
                     ELSE [goals |-> gs, completed |-> cg, ok |-> FALSE]
            IN /\ goals' = r.goals
               /\ completed_goals' = r.completed
               /\ op' = [NoOp EXCEPT !.kind = "track", !.uid = tracker.uid, !.ok = r.ok,
                                     !.goal = g.id]
       ELSE /\ UNCHANGED <<goals, completed_goals>>
            /\ op' = [NoOp EXCEPT !.kind = "track"]
    /\ tracker' = [pc |-> "idle", uid |-> 0]
    /\ UNCHANGED <<notGoalVars, now>>

\* time passes
ClockGoals ==
    /\ now < MaxTimeGoals
    /\ now' = now + 1
    /\ op' = NoOp
    /\ UNCHANGED <<notGoalVars, goalVars>>

NextGoals ==
    \/ \E p \in {AutonomousPriority, UserPriority} : CreateGoal(p)
    \/ \E id \in {g.id : g \in AllGoals} : CompleteGoal(id)
    \/ TrackBegin
    \/ \E a \in ModelAnswers : TrackGoalAnswer(a)
    \/ \E a \in ModelAnswers : TrackActionAnswer(a)
    \/ ClockGoals

\* Calls of create_goal and complete_goal and runs of the track_goals body,
\* with at most MaxCreated goals created up to time MaxTimeGoals.
SpecGoals == Init /\ [][NextGoals]_vars

\* =================================================================== claims
\* the scheduler's own state, without the clock and the history variables
schedVars == <<running, shutdown_event, tasks, breakerVars, action_history,
               decisionVars, loopVars, stopper>>

\* executions of task t's body in flight
InFlight(t) == {l \in Loops : pc[l] = "body" /\ ti[l] = t}

\* a gated check that found the breaker open and skipped the run
Skipped(g) == g.open /\ ~g.closed

\* C1: per-task mutual exclusion: in every reachable state at most one
\* execution of a given task's body is in flight.
C1_MutualExclusion == \A t \in Tasks : Cardinality(InFlight(t)) <= 1

\* C2: once a task's failure_count has reached 3 (three consecutive
\* increments with no success in between), its body is not started again
\* until reset_task_failures is called for it.
C2_NoRunAfterThreeFailures == \A t \in Tasks : op.began = t => ~tripped[t]

\* C3: the breaker's cycle.  A failure counted against the dependency adds
\* one to the counter; when the counter reaches 5 the breaker is open with
\* reset time now + 300 s, below 5 the flag and the reset time are left
\* alone.  A gated check that finds the breaker open with the time not past
\* the reset time leaves it open and skips the run; a gated check that finds it
\* open with the time past the reset time closes it and zeroes the counter.
C3_BreakerCycle ==
    [][ /\ (op'.kind = "end" /\ CountsForBreaker(op'.outcome)
               /\ \A i \in DOMAIN op'.gates : ~op'.gates[i].closed)
            => /\ ollama_consecutive_failures' = ollama_consecutive_failures + 1
               /\ ollama_consecutive_failures' >= BreakerThreshold
                    => /\ ollama_circuit_open'
                       /\ ollama_circuit_reset_time' = now' + BreakerCooldown
               /\ ollama_consecutive_failures' < BreakerThreshold
                    => /\ ollama_circuit_open' = ollama_circuit_open
                       /\ ollama_circuit_reset_time' = ollama_circuit_reset_time
        /\ \A i \in DOMAIN op'.gates :
              LET g == op'.gates[i] IN
              /\ (g.open /\ g.at <= g.deadline)
                    => ~g.closed /\ ollama_circuit_open' /\ op'.began # g.task
              /\ (g.open /\ g.at > g.deadline)
                    => /\ g.closed
                       /\ ~ollama_circuit_open'
                       /\ ollama_consecutive_failures' = 0
                       /\ op'.began = g.task
      ]_vars

\* the breaker has opened and a gated check after the reset time has closed it
C3_Witness ==
    /\ ~ollama_circuit_open
    /\ ollama_consecutive_failures = 0
    /\ \E i \in DOMAIN op.gates : op.gates[i].closed /\ op.gates[i].at > op.gates[i].deadline

\* C4: a successful task execution leaves the breaker's consecutive-failure
\* counter at 0, whatever it was before.
C4_SuccessZeroesCounter ==
    (op.kind = "end" /\ op.outcome = "success") => ollama_consecutive_failures = 0

\* a success that found the breaker open and the counter above 0
C4_Witness ==
    /\ op.kind = "end"
    /\ op.outcome = "success"
    /\ op.bopen
    /\ op.bfails > 0
    /\ ollama_consecutive_failures = 0
    /\ ollama_circuit_open

\* C5: however a started run ends (return, timeout, exception, cancellation
\* of start(), breaker skip), the task's is_running is false and its last_run
\* is the start time recorded for the run.
C5_RunAlwaysCleanedUp ==
    /\ op.kind = "end"
          => /\ ~tasks[op.task].is_running
             /\ tasks[op.task].last_run = op.start
    /\ \A i \in DOMAIN op.gates :
          Skipped(op.gates[i])
             => /\ ~tasks[op.gates[i].task].is_running
                /\ tasks[op.gates[i].task].last_run = op.gates[i].start

\* a run ended by the breaker's skip
C5_Witness ==
    \E i \in DOMAIN op.gates :
        /\ Skipped(op.gates[i])
        /\ ~tasks[op.gates[i].task].is_running
        /\ tasks[op.gates[i].task].last_run = op.gates[i].start

\* C6: a run that hits the hard timeout writes exactly one entry to the
\* action log, with status "timeout", and adds exactly 1 to the task's
\* failure_count.
C6_TimeoutPath ==
    [][ (op'.kind = "end" /\ op'.outcome = "timeout")
            => /\ op'.logged = << <<op'.task, "timeout">> >>
               /\ action_history' = _record_action(action_history, <<op'.task, "timeout">>)
               /\ tasks'[op'.task].failure_count = tasks[op'.task].failure_count + 1
      ]_vars

\* a first timeout of a task
C6_Witness ==
    /\ op.kind = "end"
    /\ op.outcome = "timeout"
    /\ tasks[op.task].failure_count = 1
    /\ action_history = << <<op.task, "timeout">> >>

\* C7: when stop(wait_for_tasks=True) returns without having force-reset the
\* flags, every task has is_running = false.
C7_StopLeavesNoTaskRunning ==
    (op.kind = "stop_return" /\ op.wait /\ ~op.forced)
        => \A t \in Tasks : ~tasks[t].is_running

\* C8 as stated: the shutdown event is set only once a loop has exited, and
\* after stop(wait_for_tasks=True) has returned (and start() has not been
\* called again) the loop makes no tick, task start or decision launch.
C8_NothingAfterStopReturns ==
    /\ shutdown_event => \E l \in Loops : pc[l] = "exited"
    /\ stopper.done => (op.kind # "tick" /\ op.began = 0 /\ ~op.launched)

\* C8 as amended: the shutdown event is set only once a loop has exited, and
\* when stop(wait_for_tasks=True) returns without its wait for the event
\* timing out, a loop has exited since this stop() cleared the running flag.
C8_SignalMeansLoopExited ==
    /\ shutdown_event => \E l \in Loops : pc[l] = "exited"
    /\ op.kind = "exit" => (shutdown_event /\ pc[op.loop] = "exited")
    /\ (op.kind = "stop_return" /\ op.wait /\ ~op.evto) => op.exited

\* stop(wait_for_tasks=True) returns on the event
C8_Witness ==
    /\ op.kind = "stop_return"
    /\ op.wait
    /\ ~op.evto
    /\ op.exited
    /\ shutdown_event

\* C9: while the running flag is false no tick begins and no task body
\* begins.
C9_NoNewWorkWhenStopped == (op.kind = "tick" \/ op.began # 0) => running

\* C10: start() called with the running flag true, and stop() called with
\* it false, change nothing of the scheduler's state.
C10_Idempotent ==
    [][ /\ (calls' = calls + 1 /\ op'.kind \in {"start", "start_noop"} /\ running)
            => UNCHANGED schedVars
        /\ (calls' = calls + 1 /\ op'.kind \in {"stop", "stop_return", "stop_noop"} /\ ~running)
            => UNCHANGED schedVars
      ]_vars

\* start() has been called on a running agent with a task body in flight
C10_Witness ==
    /\ op.kind = "start_noop"
    /\ running
    /\ \E l \in Loops : pc[l] = "body"

\* C11: overlap prevention.  While an execution of a task's body is in
\* flight, a tick that scans the task finds is_running true, takes the
\* "still running, skipping" branch and does not start the task again: no
\* step starts the body of a task that has an execution in flight.
C11_NoStartDuringExecution ==
    [][ \A t \in Tasks : InFlight(t) # {} => op'.began # t ]_vars

\* C12: reset_task_failures leaves a running task alone (failure_count and
\* enabled unchanged), gives a task that is not running failure_count 0 and
\* enabled true, and called for all tasks resets exactly those not running.
C12_ResetSkipsRunning ==
    [][ op'.kind = "reset"
          => \A t \in Tasks :
                LET named == op'.task = 0 \/ op'.task = t IN
                /\ (named /\ tasks[t].is_running) => tasks'[t] = tasks[t]
                /\ (named /\ ~tasks[t].is_running)
                      => tasks'[t] = [tasks[t] EXCEPT !.failure_count = 0, !.enabled = TRUE]
                /\ ~named => tasks'[t] = tasks[t]
      ]_vars

\* a reset of all tasks has passed over a running task with failures counted
C12_Witness ==
    /\ op.kind = "reset"
    /\ op.task = 0
    /\ \E t \in Tasks : tasks[t].is_running /\ tasks[t].failure_count > 0
    /\ \E t \in Tasks : ~tasks[t].is_running /\ tasks[t].failure_count = 0 /\ tasks[t].enabled

\* a start() coroutine that has ended
Ended(l) == pc[l] \in {"exited", "cancelled"}

\* C14: an exception or a timeout of the model call of the decision
\* sub-flow is swallowed there: it ends no start() coroutine, leaves the
\* running flag alone and changes no task's failure_count, enabled or
\* is_running.
C14_DecisionErrorIsolated ==
    [][ (op'.kind = "decision" /\ op'.outcome = "error")
          => /\ running' = running
             /\ \A l \in Loops : Ended(l)' => Ended(l)
             /\ \A t \in Tasks :
                   /\ tasks'[t].failure_count = tasks[t].failure_count
                   /\ tasks'[t].enabled = tasks[t].enabled
                   /\ tasks'[t].is_running = tasks[t].is_running
      ]_vars

\* the model call has failed under a running agent whose loop is asleep
C14_Witness ==
    /\ op.kind = "decision"
    /\ op.outcome = "error"
    /\ running
    /\ \E l \in Loops : pc[l] = "sleep"

\* the decision sub-flows inside the locked section (past the acquisition
\* of the decision lock)
InLockedSection == {d \in DecIds : dec[d].st = "calling"}

\* C15: at most one execution of the decision sub-flow is inside its locked
\* section at any time.
C15_OneDecisionInLock == Cardinality(InLockedSection) <= 1

\* one decision is inside the locked section while another waits for the lock
C15_Witness ==
    /\ Cardinality(InLockedSection) = 1
    /\ \E d \in DecIds : dec[d].st = "waitlock"

\* C13: the scheduler loop survives a bad tick.  An exception raised
\* inside a tick (by a task body, or by the for loop when register_task or
\* remove_task has changed the registry during the scan) does not end the
\* start() coroutine and leaves the running flag as it was; one that reaches
\* the tick's own handler is followed by the back-off sleep, and the loop's
\* next step after that sleep, with the flag still true, is a tick.
C13_LoopSurvivesBadTick ==
    [][ /\ (op'.kind = "end" /\ (op'.raised \/ CountsForTask(op'.outcome)))
            => /\ running' = running
               /\ pc'[op'.loop] \notin {"exited", "cancelled"}
               /\ op'.raised => pc'[op'.loop] = "backoff"
        /\ \A l \in Loops :
              (pc[l] = "backoff" /\ pc'[l] # "backoff" /\ running /\ op'.kind # "cancel")
                 => (op'.kind = "tick" /\ op'.loop = l /\ op'.backoff)
      ]_vars

\* a tick made after the back-off sleep that followed a bad tick
C13_Witness ==
    /\ op.kind = "tick"
    /\ op.backoff
    /\ running
    /\ op.began # 0

\* the last n entries of a sequence
LastN(q, n) == [i \in 1..n |-> q[Len(q) - n + i]]

\* C18: the action log never holds more than max_history entries, and after
\* any number n of recorded entries it is the most recent min(n, max_history)
\* of them, in the order they were recorded.
C18_LogKeepsMostRecent ==
    /\ Len(action_history) <= max_history
    /\ action_history = LastN(pushed, Min(Len(pushed), max_history))

\* more entries were recorded than the log holds, and the log holds more than one
C18_Witness ==
    /\ max_history > 1
    /\ Len(pushed) > max_history
    /\ Len(action_history) = max_history
    /\ action_history[1] # action_history[2]

\* C16: create_goal called with max_goals goals in the active list returns
\* no id and leaves the list as it is, and the active list never holds more
\* than max_goals goals, whatever create_goal and complete_goal calls and
\* goal-tracking runs are made.
C16_GoalCap ==
    [][ /\ Len(goals') <= max_goals
        /\ (op'.kind = "create_goal" /\ Len(goals) = max_goals)
              => (~op'.ok /\ op'.goal = <<>> /\ goals' = goals)
      ]_vars

\* create_goal has been refused on a full list
C16_Witness ==
    /\ op.kind = "create_goal"
    /\ ~op.ok
    /\ Len(goals) = max_goals

\* the step is a goal-tracking run that takes the progress of the goal it
\* picked to 100
RaisedToFull ==
    /\ op'.kind = "track"
    /\ \E g \in AllGoals :
          /\ g.uid = op'.uid
          /\ g.progress < ProgressFull
          /\ g.progress + ProgressStep >= ProgressFull

\* the goal object u is in the completed list once and not in the active list
MovedOnce(u) ==
    /\ \A i \in DOMAIN goals' : goals'[i].uid # u
    /\ Cardinality({i \in DOMAIN completed_goals' : completed_goals'[i].uid = u}) = 1

\* complete_goal is called with an id it has completed a goal for before
SecondCompletion ==
    /\ op'.kind = "complete_goal"
    /\ \E i \in DOMAIN completed_goals : completed_goals[i].id = op'.goal

\* C17: when a goal-tracking run raises a goal's progress to 100, the goal
\* is removed from the active list and appended to the completed list exactly
\* once; a second call of complete_goal with the same id returns failure and
\* changes neither list.
C17_CompletedExactlyOnce ==
    [][ /\ RaisedToFull => MovedOnce(op'.uid)
        /\ SecondCompletion
              => (~op'.ok /\ goals' = goals /\ completed_goals' = completed_goals)
      ]_vars

\* C19: self-tuning.  With at least 5 recorded runs and optimization
\* enabled, the tuner sets the interval to max(300, 0.8 * old) when the
\* success rate is at least 0.7 and the average duration below 5 s, to
\* min(86400, 1.5 * old) when the success rate is below 0.5, and leaves it
\* unchanged otherwise; with fewer than 5 runs or optimization disabled it
\* leaves it unchanged.
C19_SelfTuning ==
    [][ op'.kind = "optimize"
          => LET t == op'.task
                 p == task_performance[t]
                 old == task_interval[t]
                 new == task_interval'[t]
                 tuned == optimization_enabled /\ p.total >= 5
                 good == p.successes * 10 >= 7 * p.total
                 fast == p.dsum < 5 * p.total
                 poor == p.successes * 2 < p.total
             IN /\ (tuned /\ good /\ fast) => new * 10 = Max(3000, 8 * old)
                /\ (tuned /\ poor) => new * 10 = Min(864000, 15 * old)
                /\ (~tuned \/ (~(good /\ fast) /\ ~poor)) => new = old
                /\ \A u \in Tasks \ {t} : task_interval'[u] = task_interval[u]
      ]_vars

\* the tuner has shortened an interval, and lengthened another up to the day
C19_Witness ==
    /\ op.kind = "optimize"
    /\ op.task = 1
    /\ optimization_enabled
    /\ task_performance[1].total >= 5
    /\ \/ op.old = 600 /\ task_interval[1] = 480
       \/ op.old = 60000 /\ task_interval[1] = 86400

\* C20: while the circuit breaker is open and the reset deadline has not
\* passed, the scheduler starts no task body: a due task whose gate finds the
\* breaker open at a time not past the deadline is skipped, with last_run
\* stamped to the tick's current_time and is_running false; the skip leaves
\* the task's failure_count and enabled flag and its performance record as
\* they were and writes no Action Log entry for it, and a tick that only
\* skips leaves the breaker, the performance records and the Action Log
\* unchanged.
C20_BreakerSkipFrame ==
    [][ /\ \A i \in DOMAIN op'.gates :
              LET g == op'.gates[i] IN
              (g.open /\ g.at <= g.deadline)
                 => /\ op'.began # g.task
                    /\ tasks'[g.task].last_run = g.start
                    /\ ~tasks'[g.task].is_running
                    /\ tasks'[g.task].failure_count = tasks[g.task].failure_count
                    /\ tasks'[g.task].enabled = tasks[g.task].enabled
                    /\ task_performance'[g.task] = task_performance[g.task]
                    /\ \A j \in DOMAIN op'.logged : op'.logged[j][1] # g.task
                    /\ ollama_circuit_open'
                    /\ ollama_circuit_reset_time' = g.deadline
        /\ (/\ op'.kind = "tick"
            /\ op'.gates # <<>>
            /\ \A i \in DOMAIN op'.gates : Skipped(op'.gates[i]))
              => /\ op'.began = 0
                 /\ UNCHANGED <<breakerVars, task_performance, action_history>>
      ]_vars

\* a tick has skipped a due task at the breaker's gate, in an agent that has
\* performance records and an Action Log entry
C20_Witness ==
    /\ op.kind = "tick"
    /\ \E i \in DOMAIN op.gates :
          /\ Skipped(op.gates[i])
          /\ op.gates[i].at <= op.gates[i].deadline
          /\ task_performance[op.gates[i].task].total > 0
    /\ action_history # <<>>

\* C21: a run that ends with an exception other than the timeout adds exactly
\* 1 to the task's failure_count and writes one "failed" entry to the action
\* log.  When the exception's text matches the dependency heuristic
\* ("ollama" or "connection") the breaker's counter grows by 1 and the
\* breaker opens once it has reached 5; when it does not match, the counter,
\* the open flag and the reset time stay as they were.  (The gate of a task
\* started later in the same tick may close the breaker: such steps are left
\* to C3.)
C21_ExceptionPath ==
    [][ (op'.kind = "end" /\ op'.outcome \in {"dep_error", "other_error"})
            => /\ tasks'[op'.task].failure_count = tasks[op'.task].failure_count + 1
               /\ op'.logged = << <<op'.task, "failed">> >>
               /\ action_history' = _record_action(action_history, <<op'.task, "failed">>)
               /\ (\A i \in DOMAIN op'.gates : ~op'.gates[i].closed)
                    => IF op'.outcome = "dep_error"
                       THEN /\ ollama_consecutive_failures' = ollama_consecutive_failures + 1
                            /\ ollama_circuit_open' =
                                  (ollama_circuit_open
                                      \/ ollama_consecutive_failures' >= BreakerThreshold)
                       ELSE UNCHANGED breakerVars
      ]_vars

\* a run has failed with an exception that does not match the heuristic and
\* has left a counter above 0 as it was
C21_Witness ==
    /\ op.kind = "end"
    /\ op.outcome = "other_error"
    /\ ollama_consecutive_failures > 0
    /\ tasks[op.task].failure_count > 0
    /\ action_history = << <<op.task, "failed">> >>

\* C22: a task body is started only in a tick in which the task is enabled,
\* not running, has failure_count < 3 and is due (tick time - last_run >=
\* interval), with the breaker closed; and two successive starts of the same
\* task are at least interval seconds apart, so that a failed run is not
\* retried before the interval has elapsed.
C22_FixedCadence ==
    [][ \A t \in Tasks :
          op'.began = t
            => /\ tasks[t].enabled
               /\ ~tasks[t].is_running
               /\ tasks[t].failure_count < MaxTaskFailures
               /\ ~ollama_circuit_open'
               /\ (cur'[op'.loop] - tasks[t].last_run) * Period >= task_interval[t]
               /\ last_start[t] # NoStart
                     => (now' - last_start[t]) * Period >= task_interval[t]
      ]_vars

\* C23: the start time recorded for a run is the moment at which the body of
\* that task begins: the duration recorded for a successful run is the time
\* spent in the task's own body, without the time spent in the tasks scanned
\* before it in the same tick, and last_run is stamped with the task's own
\* start.
C23_StartIsOwnStart ==
    [][ /\ op'.began # 0 => cur'[op'.loop] = now'
        /\ op'.kind = "end"
              => /\ op'.outcome = "success"
                      => Duration(op', now') = (now' - last_start[op'.task]) * Period
                 /\ tasks'[op'.task].last_run = last_start[op'.task]
      ]_vars

\* C24: the decision sub-flow is gated by the breaker.  No decision
\* evaluation begins its call of the model backend while the breaker's open
\* flag is true, and an evaluation that finds the breaker open ends without
\* a call and leaves the action log as it was.
C24_DecisionGated ==
    [][ \A d \in DecIds :
          /\ (dec[d].st # "calling" /\ dec'[d].st = "calling") => ~ollama_circuit_open
          /\ (/\ op'.kind = "decision"
              /\ dec[d].st \in {"pending", "waitlock"}
              /\ dec'[d].st # dec[d].st
              /\ ollama_circuit_open)
                => /\ dec'[d].st = "free"
                   /\ action_history' = action_history
      ]_vars

\* a decision evaluation has found the breaker open, with a task still
\* enabled, and has ended without calling the model backend
C24_Witness ==
    /\ op.kind = "decision"
    /\ op.outcome = "none"
    /\ ollama_circuit_open
    /\ \E t \in registered : tasks[t].enabled
    /\ \A d \in DecIds : dec[d].st = "free"

\* C25: the tuner's shrink branch never lengthens an interval: for a task
\* with at least 5 runs, a success rate >= 0.7 and an average duration below
\* 5 s, whatever its interval (below 300 s included), the interval after
\* tuning is at most the interval before; and the grow branch (success rate
\* below 0.5) never shortens one.
C25_ShrinkNeverLengthens ==
    [][ op'.kind = "optimize"
          => LET t == op'.task
                 p == task_performance[t]
                 tuned == optimization_enabled /\ p.total >= MinRuns
             IN /\ (tuned /\ p.successes * 10 >= 7 * p.total
                          /\ p.dsum < FastDuration * p.total)
                      => task_interval'[t] <= task_interval[t]
                /\ (tuned /\ p.successes * 2 < p.total)
                      => task_interval'[t] >= task_interval[t]
      ]_vars

\* C26: every goal of the active list has status "active" and a progress
\* within 0..100; no operation lowers the progress of a goal; a goal whose
\* progress reaches 100 in the goal-tracking task is moved to the completed
\* list in the same step, so that no goal of the active list has progress
\* 100; and every goal of the completed list has status "completed".
C26_GoalStateInvariant ==
    [][ /\ \A i \in DOMAIN goals' :
              /\ goals'[i].status = "active"
              /\ goals'[i].progress \in 0..ProgressFull
              /\ goals'[i].progress # ProgressFull
        /\ \A i \in DOMAIN completed_goals' : completed_goals'[i].status = "completed"
        /\ \A g \in AllGoals : \A h \in AllGoals' :
              g.uid = h.uid => h.progress >= g.progress
      ]_vars

\* C29: the ids of the goals of the active list are pairwise distinct, after
\* any sequence of create_goal and complete_goal calls, creations within the
\* clock second of an earlier one included.
C29_ActiveIdsDistinct ==
    \A i \in DOMAIN goals : \A j \in DOMAIN goals : i # j => goals[i].id # goals[j].id

\* C27: at most one main loop executes ticks at any time, whatever the
\* sequence of start() and stop() calls: a loop makes a tick only when no
\* other start() coroutine is alive.
C27_OneLoopTicks ==
    op.kind = "tick" => \A k \in Loops \ {op.loop} : FreeLoop(k)

\* C28: running = true implies that a main loop is alive: when a start()
\* coroutine ends by cancellation the flag does not stay true, and a later
\* start() launches a loop instead of returning as "already running".
C28_RunningMeansLoopAlive ==
    /\ running => \E l \in Loops : ~FreeLoop(l)
    /\ op.kind = "start_noop" => \E l \in Loops : ~FreeLoop(l)

\* a task whose gate can still be reached: enabled and below the failure
\* limit, so that a later tick finds it due
Schedulable(t) == t \in registered /\ tasks[t].enabled /\ ~TooManyFailures(tasks[t])

\* C30: an open breaker does not stay open forever.  Whenever the breaker
\* is open, the time is past the reset deadline and the main loop keeps
\* ticking, the breaker is eventually closed with its counter at 0, whatever
\* the enabled or auto-disabled state of the registered tasks.  (At the end
\* of the time span followed, a task that is still schedulable stands for a
\* gate made later.)
C30_BreakerEventuallyCloses ==
    (running /\ ollama_circuit_open /\ now > ollama_circuit_reset_time)
        ~> \/ ~ollama_circuit_open /\ ollama_consecutive_failures = 0
           \/ ~running
           \/ now = MaxTimeLive /\ \E t \in Tasks : Schedulable(t)

====
